---- MODULE Spec2Model ----
(***************************************************************************)
(* Model of the employee_infoCRUD Flask backend (backend_flask/).          *)
(*                                                                         *)
(* State: the document store (the collections users and employees and the  *)
(* ObjectId generator) and the bearer tokens issued so far.  A route        *)
(* handler is an operator from the store and the request to the response   *)
(* and the store it leaves; one action per route applies it to the         *)
(* requests of the sample sets.                                            *)
(*                                                                         *)
(* Text is modelled as a sequence of one-character strings, so that        *)
(* str.strip(), the validators' regular expressions, int() and             *)
(* str(ObjectId)/ObjectId(str) are computed character by character.        *)
(***************************************************************************)
EXTENDS Integers, Sequences, FiniteSets, TLC

VARIABLES
    db,          \* mongo.db: [users, employees, nextOid]
    issued,      \* the tokens login has returned
    registered,  \* history: the (name, email, password) of every 201 of register
    owner,       \* history: employee _id -> e-mail of the account that created it
    inflight     \* create requests between their duplicate check and their insert

vars == <<db, issued, registered, owner, inflight>>

(***************************************************************************)
(* Bounds of the model.                                                    *)
(***************************************************************************)
\* Documents (users and employees) inserted in one behaviour.
MaxDocs == 4

\* Counter value of the first ObjectId the store generates.
FirstOid == 10

(***************************************************************************)
(* Characters.                                                             *)
(***************************************************************************)
Lower == {"a","b","c","d","e","f","g","h","i","j","k","l","m",
          "n","o","p","q","r","s","t","u","v","w","x","y","z"}

Upper == {"A","B","C","D","E","F","G","H","I","J","K","L","M",
          "N","O","P","Q","R","S","T","U","V","W","X","Y","Z"}

DigitSeq == <<"0","1","2","3","4","5","6","7","8","9">>

Digit == {DigitSeq[i] : i \in 1..10}

Alnum == Lower \cup Upper \cup Digit

HexSeq == <<"0","1","2","3","4","5","6","7","8","9","a","b","c","d","e","f">>

HexUpper == {"A","B","C","D","E","F"}

\* Characters str.strip() removes (the ASCII whitespace among them).
Whitespace == {" ", "\t", "\n", "\r", "\f"}

None == [t |-> "null"]

SetMin(S) == CHOOSE x \in S : \A y \in S : x <= y

SetMax(S) == CHOOSE x \in S : \A y \in S : x >= y

(***************************************************************************)
(* utils/validators.py                                                     *)
(***************************************************************************)
\* The literal domain of the e-mail pattern.
GmailDomain == <<"@","g","m","a","i","l",".","c","o","m">>

\* {4,28}: the interior of the local part.
MinInterior == 4

MaxInterior == 28

\* [a-zA-Z0-9._%+-]
EmailInterior == Alnum \cup {".", "_", "%", "+", "-"}

\* (?!.*\.\.) : no two consecutive dots anywhere in the string.
NoDoubleDot(s) == \A i \in 1..(Len(s) - 1) : ~(s[i] = "." /\ s[i + 1] = ".")

validate_email_format_short(email) ==
    LET n == Len(email)
        d == Len(GmailDomain)
        l == n - d
    IN  /\ l >= 1
        /\ SubSeq(email, l + 1, n) = GmailDomain
        /\ \A i \in 1..l : email[i] \in EmailInterior

validate_email_format(email) ==
    LET n == Len(email)
        d == Len(GmailDomain)
        l == n - d
    IN  /\ NoDoubleDot(email)
        /\ l >= MinInterior + 2
        /\ l <= MaxInterior + 2
        /\ SubSeq(email, l + 1, n) = GmailDomain
        /\ email[1] \in Alnum
        /\ email[l] \in Alnum
        /\ \A i \in 2..(l - 1) : email[i] \in EmailInterior

\* len(password) >= 6
MinPassword == 6

validate_password(password) == Len(password) >= MinPassword

\* [A-Za-z ]{2,50}
MinText == 2

MaxText == 50

TextChars == Lower \cup Upper \cup {" "}

validate_name(name) ==
    /\ Len(name) >= MinText
    /\ Len(name) <= MaxText
    /\ \A i \in 1..Len(name) : name[i] \in TextChars

validate_text_field(value) ==
    /\ Len(value) >= MinText
    /\ Len(value) <= MaxText
    /\ \A i \in 1..Len(value) : value[i] \in TextChars

\* str.strip()
strip(s) ==
    LET keep == {i \in 1..Len(s) : s[i] \notin Whitespace}
    IN  IF keep = {} THEN <<>> ELSE SubSeq(s, SetMin(keep), SetMax(keep))

(***************************************************************************)
(* JSON values of the "salary" field and Python's int().                   *)
(*   [t |-> "int",   v |-> n]        a JSON integer                        *)
(*   [t |-> "float", tenths |-> n]   a JSON number with one decimal, n/10  *)
(*   [t |-> "str",   s |-> chars]    a JSON string                         *)
(*   [t |-> "null"]                  null, or the key is absent            *)
(***************************************************************************)
JInt(n) == [t |-> "int", v |-> n]

JFloat(n) == [t |-> "float", tenths |-> n]

JStr(s) == [t |-> "str", s |-> s]

DigitVal(c) == (CHOOSE i \in 1..10 : DigitSeq[i] = c) - 1

RECURSIVE DigitsVal(_)
DigitsVal(ds) ==
    IF ds = <<>> THEN 0
    ELSE 10 * DigitsVal(SubSeq(ds, 1, Len(ds) - 1)) + DigitVal(ds[Len(ds)])

Raise == [ok |-> FALSE, v |-> 0]

Value(n) == [ok |-> TRUE, v |-> n]

\* int(str): surrounding whitespace is ignored, one optional sign, then
\* decimal digits only.
int_of_str(s) ==
    LET z      == strip(s)
        signed == z # <<>> /\ z[1] \in {"+", "-"}
        ds     == IF signed THEN Tail(z) ELSE z
    IN  IF ds = <<>> \/ \E i \in 1..Len(ds) : ds[i] \notin Digit
        THEN Raise
        ELSE IF signed /\ z[1] = "-" THEN Value(0 - DigitsVal(ds))
             ELSE Value(DigitsVal(ds))

\* int(float) truncates towards zero.
int_of_float(tenths) ==
    IF tenths >= 0 THEN Value(tenths \div 10) ELSE Value(0 - ((0 - tenths) \div 10))

py_int(j) ==
    IF j.t = "int" THEN Value(j.v)
    ELSE IF j.t = "float" THEN int_of_float(j.tenths)
    ELSE IF j.t = "str" THEN int_of_str(j.s)
    ELSE Raise

\* try: int(salary) > 0   except: False
validate_salary(salary) ==
    LET r == py_int(salary) IN r.ok /\ r.v > 0

(***************************************************************************)
(* bson.ObjectId: the store's identifiers and their 24-digit string form.  *)
(* An identifier is modelled by its counter value.                         *)
(***************************************************************************)
OidLen == 24

RECURSIVE ShiftHex(_, _)
ShiftHex(n, k) == IF k = 0 \/ n = 0 THEN n ELSE ShiftHex(n \div 16, k - 1)

\* str(ObjectId): 24 lowercase hexadecimal digits.
ObjectIdStr(n) == [i \in 1..OidLen |-> HexSeq[(ShiftHex(n, OidLen - i) % 16) + 1]]

ToLowerHex(c) ==
    IF c \in HexUpper
    THEN HexSeq[10 + (CHOOSE k \in 1..6 : <<"A","B","C","D","E","F">>[k] = c)]
    ELSE c

\* ObjectId(str): a 24-digit hexadecimal string of either case names the
\* identifier whose string form is its lowercase; anything else raises
\* InvalidId.
ObjectId(id) ==
    IF Len(id) = OidLen /\ \A i \in 1..Len(id) : ToLowerHex(id[i]) \in {HexSeq[k] : k \in 1..16}
    THEN [ok |-> TRUE, hex |-> [i \in 1..OidLen |-> ToLowerHex(id[i])]]
    ELSE [ok |-> FALSE, hex |-> <<>>]

(***************************************************************************)
(* bcrypt.  The digest of a password under a salt is modelled by the pair  *)
(* itself: equal exactly when salt and password are equal.                 *)
(***************************************************************************)
hashpw(password, salt) == [salt |-> salt, digest |-> <<salt, password>>]

checkpw(password, hashed) == hashpw(password, hashed.salt) = hashed

(***************************************************************************)
(* flask_jwt_extended.  A presented Authorization header is one of         *)
(*   missing    no header                                                  *)
(*   malformed  not a decodable, correctly signed token                    *)
(*   expired    a token this server issued, past its expiry                *)
(*   valid      a token this server issued, not expired                    *)
(* acct is history: the e-mail of the account whose login issued it.       *)
(***************************************************************************)
create_access_token(identity, acct) == [kind |-> "valid", sub |-> identity, acct |-> acct]

NoHeader == [kind |-> "missing", sub |-> <<>>, acct |-> <<>>]

Malformed == [kind |-> "malformed", sub |-> <<>>, acct |-> <<>>]

Expired(tok) == [tok EXCEPT !.kind = "expired"]

(***************************************************************************)
(* Responses: status, the JSON key of the text, the text, the payload.     *)
(***************************************************************************)
Error(status, text) == [status |-> status, key |-> "error", text |-> text, data |-> <<>>]

Message(status, text) == [status |-> status, key |-> "message", text |-> text, data |-> <<>>]

JwtError(status, text) == [status |-> status, key |-> "msg", text |-> text, data |-> <<>>]

\* An exception no handler catches: Flask answers 500.
ServerError == [status |-> 500, key |-> "html", text |-> "Internal Server Error", data |-> <<>>]

Json(payload) == [status |-> 200, key |-> "json", text |-> "", data |-> payload]

\* JWTManager(app) installs the library's default callbacks: no header and
\* an expired token answer 401, an undecodable token answers 422.
jwt_required_accepts_expired(token) ==
    IF token.kind = "missing"
    THEN [ok |-> FALSE, resp |-> JwtError(401, "Missing Authorization Header")]
    ELSE IF token.kind = "malformed"
    THEN [ok |-> FALSE, resp |-> JwtError(422, "Not enough segments")]
    ELSE [ok |-> TRUE, resp |-> Json(<<>>)]

jwt_required(token) ==
    IF token.kind = "missing"
    THEN [ok |-> FALSE, resp |-> JwtError(401, "Missing Authorization Header")]
    ELSE IF token.kind = "malformed"
    THEN [ok |-> FALSE, resp |-> JwtError(422, "Not enough segments")]
    ELSE IF token.kind = "expired"
    THEN [ok |-> FALSE, resp |-> JwtError(401, "Token has expired")]
    ELSE [ok |-> TRUE, resp |-> Json(<<>>)]

get_jwt_identity_acct(token) == token.acct

\* get_jwt_identity(): the subject of the verified token.
get_jwt_identity(token) == token.sub

(***************************************************************************)
(* The document store (pymongo).  store is mongo.db.                       *)
(***************************************************************************)
Truthy(s) == s # <<>>

\* "not password" on a JSON value.
TruthyJ(j) ==
    IF j.t = "str" THEN j.s # <<>>
    ELSE IF j.t = "int" THEN j.v # 0
    ELSE IF j.t = "float" THEN j.tenths # 0
    ELSE FALSE

\* The indexes of the documents of coll.
Docs(coll) == 1..Len(coll)

\* find_one: the first of the matching documents in store order, 0 for None.
FirstIndex(hits) == IF hits = {} THEN 0 ELSE SetMin(hits)

\* delete_one
RemoveAt(coll, k) == [i \in 1..(Len(coll) - 1) |-> IF i < k THEN coll[i] ELSE coll[i + 1]]

\* insert_one: the store generates the _id.
InsertOne(store, coll, doc) ==
    [store EXCEPT ![coll] = Append(@, [_id |-> store.nextOid] @@ doc),
                  !.nextOid = @ + 1]

\* What a handler returns: the response, and the store as it leaves it.
Result(resp, store) == [resp |-> resp, db |-> store]

(***************************************************************************)
(* routes/auth.py                                                          *)
(***************************************************************************)
\* mongo.db.users.find_one({"email": email})
users_find_one(store, email) ==
    FirstIndex({i \in Docs(store.users) : store.users[i].email = email})

register_duplicate_never(store, email) == FALSE

\* if mongo.db.users.find_one({"email": email}): return 400
register_duplicate(store, email) == users_find_one(store, email) # 0

\* POST /api/auth/register.  name and email are JSON strings, password is
\* any JSON value; salt is the outcome of bcrypt.gensalt().
register(store, name, email, password, salt) ==
    IF ~Truthy(name) \/ ~Truthy(email) \/ ~TruthyJ(password)
    THEN Result(Error(400, "All fields required"), store)
    ELSE IF ~validate_email_format(email)
    THEN Result(Error(400, "Invalid email format"), store)
    ELSE IF password.t # "str"
    THEN \* len() of a number raises TypeError
         Result(ServerError, store)
    ELSE IF ~validate_password(password.s)
    THEN Result(Error(400, "Password must be 6+ chars"), store)
    ELSE IF register_duplicate(store, email)
    THEN Result(Error(400, "Email already exists"), store)
    ELSE Result(Message(201, "Registered Successfully"),
                InsertOne(store, "users",
                          [name |-> name, email |-> email,
                           password |-> hashpw(password.s, salt)]))

\* return jsonify({"error": "Invalid credentials"}), 400   (no such user)
InvalidCredentialsNoUser == Error(400, "Invalid credentials")

WrongPasswordTold == Error(401, "Wrong password")

\* return jsonify({"error": "Invalid credentials"}), 400   (checkpw failed)
InvalidCredentialsBadPassword == Error(400, "Invalid credentials")

login_identity_name(user) == user.name

\* identity=str(user["_id"])
login_identity(user) == ObjectIdStr(user._id)

\* POST /api/auth/login
login(store, email, password) ==
    LET k == users_find_one(store, email)
    IN  IF ~Truthy(email) \/ ~TruthyJ(password)
        THEN Result(Error(400, "All fields required"), store)
        ELSE IF k = 0
        THEN Result(InvalidCredentialsNoUser, store)
        ELSE IF password.t # "str"
        THEN \* password.encode() on a number raises AttributeError
             Result(ServerError, store)
        ELSE IF ~checkpw(password.s, store.users[k].password)
        THEN Result(InvalidCredentialsBadPassword, store)
        ELSE Result(Json([token |-> create_access_token(login_identity(store.users[k]),
                                                        store.users[k].email),
                          name |-> store.users[k].name]),
                    store)

(***************************************************************************)
(* routes/employee.py                                                      *)
(***************************************************************************)
create_validation_email_first(name, email, department, designation, salary) ==
    IF ~validate_email_format(email) THEN "Invalid Email"
    ELSE IF ~validate_name(name) THEN "Invalid Name"
    ELSE IF ~validate_text_field(department) THEN "Invalid Department"
    ELSE IF ~validate_text_field(designation) THEN "Invalid Role"
    ELSE IF ~validate_salary(salary) THEN "Invalid Salary"
    ELSE ""

\* The five checks of create_employee, in order; "" when all pass.
create_validation(name, email, department, designation, salary) ==
    IF ~validate_name(name) THEN "Invalid Name"
    ELSE IF ~validate_email_format(email) THEN "Invalid Email"
    ELSE IF ~validate_text_field(department) THEN "Invalid Department"
    ELSE IF ~validate_text_field(designation) THEN "Invalid Role"
    ELSE IF ~validate_salary(salary) THEN "Invalid Salary"
    ELSE ""

\* The five checks of update_employee, in order; "" when all pass.
update_validation(name, email, department, designation, salary) ==
    IF ~validate_name(name) THEN "Invalid Name"
    ELSE IF ~validate_email_format(email) THEN "Invalid Email"
    ELSE IF ~validate_text_field(department) THEN "Invalid Department"
    ELSE IF ~validate_text_field(designation) THEN "Invalid Role"
    ELSE IF ~validate_salary(salary) THEN "Invalid Salary"
    ELSE ""

create_duplicate_any_owner(store, email, user_id) ==
    FirstIndex({i \in Docs(store.employees) : store.employees[i].email = email}) # 0

\* mongo.db.employees.find_one({"email": email, "createdBy": user_id})
create_duplicate(store, email, user_id) ==
    FirstIndex({i \in Docs(store.employees) :
        /\ store.employees[i].email = email
        /\ store.employees[i].createdBy = user_id}) # 0

\* create_employee up to and including its duplicate check: the response
\* when it returns early, else the document it goes on to insert.
create_check(store, token, body) ==
    LET auth        == jwt_required(token)
        user_id     == get_jwt_identity(token)
        name        == strip(body.name)
        email       == strip(body.email)
        department  == strip(body.department)
        designation == strip(body.designation)
        salary      == body.salary
        invalid     == create_validation(name, email, department, designation, salary)
    IN  IF ~auth.ok
        THEN [pass |-> FALSE, resp |-> auth.resp]
        ELSE IF invalid # ""
        THEN [pass |-> FALSE, resp |-> Error(400, invalid)]
        ELSE IF create_duplicate(store, email, user_id)
        THEN [pass |-> FALSE, resp |-> Error(400, "Email already exists")]
        ELSE [pass |-> TRUE,
              doc  |-> [name |-> name, email |-> email, department |-> department,
                        designation |-> designation, salary |-> py_int(salary).v,
                        createdBy |-> user_id]]

create_insert_unique(store, doc) ==
    IF create_duplicate(store, doc.email, doc.createdBy)
    THEN Result(Error(400, "Email already exists"), store)
    ELSE Result(Message(201, "Employee Added"), InsertOne(store, "employees", doc))

\* mongo.db.employees.insert_one({...}); return 201
create_insert(store, doc) ==
    Result(Message(201, "Employee Added"), InsertOne(store, "employees", doc))

\* POST /api/employees
create_employee(store, token, body) ==
    LET c == create_check(store, token, body)
    IN  IF c.pass THEN create_insert(store, c.doc) ELSE Result(c.resp, store)

get_employees_unscoped(store, user_id) == store.employees

\* list(mongo.db.employees.find({"createdBy": user_id}))
get_employees_find(store, user_id) ==
    SelectSeq(store.employees, LAMBDA e : e.createdBy = user_id)

\* emp["_id"] = str(emp["_id"])
Serialized(emp) == [emp EXCEPT !._id = ObjectIdStr(emp._id)]

\* GET /api/employees
get_employees(store, token) ==
    LET auth    == jwt_required(token)
        user_id == get_jwt_identity(token)
        found   == get_employees_find(store, user_id)
    IN  IF ~auth.ok
        THEN Result(auth.resp, store)
        ELSE Result(Json([i \in 1..Len(found) |-> Serialized(found[i])]), store)

\* find_one({"email": email, "createdBy": user_id, "_id": {"$ne": ObjectId(id)}})
update_duplicate(store, email, user_id, oid) ==
    FirstIndex({i \in Docs(store.employees) :
        /\ store.employees[i].email = email
        /\ store.employees[i].createdBy = user_id
        /\ ObjectIdStr(store.employees[i]._id) # oid.hex}) # 0

\* update_one({"_id": ObjectId(id), "createdBy": user_id}, ...): the index
\* of the matched document, 0 when matched_count is 0.
update_match(store, user_id, oid) ==
    FirstIndex({i \in Docs(store.employees) :
        /\ ObjectIdStr(store.employees[i]._id) = oid.hex
        /\ store.employees[i].createdBy = user_id})

\* PUT /api/employees/<id>
update_employee(store, token, id, body) ==
    LET auth        == jwt_required(token)
        user_id     == get_jwt_identity(token)
        name        == strip(body.name)
        email       == strip(body.email)
        department  == strip(body.department)
        designation == strip(body.designation)
        salary      == body.salary
        invalid     == update_validation(name, email, department, designation, salary)
        oid         == ObjectId(id)
        k           == update_match(store, user_id, oid)
    IN  IF ~auth.ok
        THEN Result(auth.resp, store)
        ELSE IF invalid # ""
        THEN Result(Error(400, invalid), store)
        ELSE IF ~oid.ok
        THEN \* ObjectId(id) raises InvalidId
             Result(ServerError, store)
        ELSE IF update_duplicate(store, email, user_id, oid)
        THEN Result(Error(400, "Email already exists"), store)
        ELSE IF k = 0
        THEN Result(Error(403, "Not authorized"), store)
        ELSE Result(Message(200, "Updated"),
                    [store EXCEPT !.employees[k] =
                        [@ EXCEPT !.name = name, !.email = email,
                                  !.department = department,
                                  !.designation = designation,
                                  !.salary = py_int(salary).v]])

delete_match_any_owner(store, user_id, oid) ==
    FirstIndex({i \in Docs(store.employees) : ObjectIdStr(store.employees[i]._id) = oid.hex})

\* delete_one({"_id": ObjectId(id), "createdBy": user_id}): the index of the
\* document removed, 0 when deleted_count is 0.
delete_match(store, user_id, oid) ==
    FirstIndex({i \in Docs(store.employees) :
        /\ ObjectIdStr(store.employees[i]._id) = oid.hex
        /\ store.employees[i].createdBy = user_id})

\* DELETE /api/employees/<id>
delete_employee(store, token, id) ==
    LET auth    == jwt_required(token)
        user_id == get_jwt_identity(token)
        oid     == ObjectId(id)
        k       == delete_match(store, user_id, oid)
    IN  IF ~auth.ok
        THEN Result(auth.resp, store)
        ELSE IF ~oid.ok
        THEN Result(ServerError, store)
        ELSE IF k = 0
        THEN Result(Error(403, "Not authorized"), store)
        ELSE Result(Message(200, "Deleted"),
                    [store EXCEPT !.employees = RemoveAt(@, k)])

(***************************************************************************)
(* Sample inputs.                                                          *)
(***************************************************************************)
Name_AnnLee == <<"A","n","n"," ","L","e","e">>

Name_Bob == <<"B","o","b">>

Local_ann == <<"a","n","n">>

Local_annlee == <<"a","n","n","l","e","e">>

Local_bobby1 == <<"b","o","b","b","y","1">>

Local_carold == <<"c","a","r","o","l",".","d">>

Pw_secret1 == <<"s","e","c","r","e","t","1">>

Pw_hunter22 == <<"h","u","n","t","e","r","2","2">>

Pw_abc == <<"a","b","c">>

Name_EveJones_padded == <<" ","E","v","e"," ","J","o","n","e","s"," ">>

Name_KimSmith == <<"K","i","m"," ","S","m","i","t","h">>

Name_Eve2 == <<"E","v","e","2">>

Local_ejones == <<"e",".","j","o","n","e","s">>

Local_ksmith == <<"k","_","s","m","i","t","h">>

Local_dotdot == <<"e",".",".","j","o","n","e","s">>

Dept_Sales == <<"S","a","l","e","s">>

Dept_Finance == <<"F","i","n","a","n","c","e">>

Dept_R == <<"R">>

Role_Manager == <<"M","a","n","a","g","e","r">>

Role_Clerk == <<"C","l","e","r","k">>

Str_7 == <<"7">>

Str_abc == <<"a","b","c">>

Str_minus5 == <<"-","5">>

Id_xyz == <<"x","y","z">>

Email_ann == Local_ann \o GmailDomain

Email_annlee == Local_annlee \o GmailDomain

Email_bobby1 == Local_bobby1 \o GmailDomain

Email_carold == Local_carold \o GmailDomain

Email_ejones_padded == Local_ejones \o GmailDomain \o <<" ">>

Email_ejones == Local_ejones \o GmailDomain

Email_ksmith == Local_ksmith \o GmailDomain

Email_dotdot == Local_dotdot \o GmailDomain

\* Outcomes of bcrypt.gensalt().
Salts == {"s1", "s2"}

\* POST /api/auth/register {"name":"Ann Lee","email":"ann@gmail.com","password":"secret1"}
AnnRequest == <<Name_AnnLee, Email_ann, JStr(Pw_secret1)>>

\* The same with a local part of six characters.
AnnLeeRequest == <<Name_AnnLee, Email_annlee, JStr(Pw_secret1)>>

BobRequest == <<Name_Bob, Email_bobby1, JStr(Pw_hunter22)>>

\* (name, email, password) of the registration requests.
RegisterInputs ==
    { AnnRequest, AnnLeeRequest, BobRequest,
      <<Name_Bob, Email_annlee, JStr(Pw_hunter22)>>,
      <<Name_Bob, Email_annlee, JStr(Pw_abc)>>,
      <<<<>>, Email_annlee, JStr(Pw_secret1)>>,
      <<Name_Bob, Email_bobby1, JInt(123456)>>,
      <<Name_Bob, Email_carold, JStr(Pw_secret1)>> }

\* (email, password) of the login requests.
LoginInputs ==
    {Email_annlee, Email_bobby1, Email_carold, <<>>}
        \X {JStr(Pw_secret1), JStr(Pw_hunter22), JStr(<<>>), JInt(123456)}

\* The two accounts that use the employee routes.
Accounts == {AnnLeeRequest, BobRequest}

AccountLogins == {<<a[2], a[3]>> : a \in Accounts}

Body(name, email, department, designation, salary) ==
    [name |-> name, email |-> email, department |-> department,
     designation |-> designation, salary |-> salary]

Body_eve == Body(Name_EveJones_padded, Email_ejones_padded, Dept_Sales, Role_Manager, JInt(5))

Body_kim_ejones == Body(Name_KimSmith, Email_ejones, Dept_Finance, Role_Clerk, JStr(Str_7))

Body_kim == Body(Name_KimSmith, Email_ksmith, Dept_Finance, Role_Clerk, JFloat(15))

Body_badname == Body(Name_Eve2, Email_ejones, Dept_Sales, Role_Manager, JInt(5))

ValidBodies == {Body_eve, Body_kim_ejones, Body_kim}

InvalidBodies ==
    { Body_badname,
      Body(Name_KimSmith, Email_dotdot, Dept_Sales, Role_Manager, JInt(5)),
      Body(Name_KimSmith, Email_ejones, Dept_R, Role_Manager, JInt(5)),
      Body(Name_KimSmith, Email_ejones, Dept_Sales, <<>>, JInt(5)),
      Body(Name_KimSmith, Email_ejones, Dept_Sales, Role_Manager, JStr(Str_abc)),
      Body(Name_KimSmith, Email_ejones, Dept_Sales, Role_Manager, JStr(Str_minus5)),
      Body(Name_KimSmith, Email_ejones, Dept_Sales, Role_Manager, JInt(0)),
      Body(Name_KimSmith, Email_ejones, Dept_Sales, Role_Manager, None),
      Body(Name_Eve2, Email_dotdot, Dept_R, <<>>, JFloat(5)) }

Bodies == ValidBodies \cup InvalidBodies

\* Bodies sent along with a header that is no valid token.
ProbeBodies == {Body_eve, Body_badname}

\* Authorization headers that are no valid token.
BadTokens == {NoHeader, Malformed} \cup {Expired(t) : t \in issued}

ToUpperHex(c) ==
    IF c \in {"a","b","c","d","e","f"}
    THEN <<"A","B","C","D","E","F">>[CHOOSE k \in 1..6 : HexSeq[10 + k] = c]
    ELSE c

UpperCased(id) == [i \in 1..Len(id) |-> ToUpperHex(id[i])]

\* Path segments <id> naming a stored employee, in either case of the
\* hexadecimal digits.
StoredIds ==
    {ObjectIdStr(db.employees[i]._id) : i \in 1..Len(db.employees)}
        \cup {UpperCased(ObjectIdStr(db.employees[i]._id)) : i \in 1..Len(db.employees)}

\* ... and an identifier of no document, and a string that is no identifier.
Ids == StoredIds \cup {ObjectIdStr(0), Id_xyz}

CreateInputs == (issued \X Bodies) \cup (BadTokens \X ProbeBodies)

ListInputs == issued \cup BadTokens

UpdateInputs == (issued \X Ids \X Bodies) \cup (BadTokens \X StoredIds \X ProbeBodies)

DeleteInputs == (issued \X Ids) \cup (BadTokens \X StoredIds)

(***************************************************************************)
(* Actions: one request served, start to end.                              *)
(***************************************************************************)
Workers == {"w1", "w2"}

NoDoc == [name |-> <<>>, email |-> <<>>, department |-> <<>>, designation |-> <<>>,
          salary |-> 0, createdBy |-> <<>>]

Idle == [stage |-> "idle", doc |-> NoDoc, acct |-> <<>>, status |-> 0, peers |-> {}]

Init ==
    /\ db = [users |-> <<>>, employees |-> <<>>, nextOid |-> FirstOid]
    /\ issued = {}
    /\ registered = {}
    /\ owner = <<>>
    /\ inflight = [w \in Workers |-> Idle]

\* The store has identifiers left for what r inserted.
WithinBound(r) == r.db.nextOid <= FirstOid + MaxDocs

RegisterFrom(inputs, salts) ==
    \E i \in inputs, salt \in salts :
        LET r == register(db, i[1], i[2], i[3], salt)
        IN  /\ WithinBound(r)
            /\ db' = r.db
            /\ registered' = IF r.resp.status = 201
                             THEN registered \cup {[name |-> i[1], email |-> i[2],
                                                    password |-> i[3]]}
                             ELSE registered
            /\ UNCHANGED <<issued, owner, inflight>>

LoginFrom(inputs) ==
    \E i \in inputs :
        LET r == login(db, i[1], i[2])
        IN  /\ db' = r.db
            /\ issued' = IF r.resp.status = 200 THEN issued \cup {r.resp.data.token}
                         ELSE issued
            /\ UNCHANGED <<registered, owner, inflight>>

\* owner after an insert into employees by the holder of token.
Owned(store, token) == (store.nextOid :> token.acct) @@ owner

\* owner restricted to the employees of store.
Kept(store) ==
    LET ids == {store.employees[i]._id : i \in 1..Len(store.employees)}
    IN  [o \in (DOMAIN owner) \cap ids |-> owner[o]]

CreateEmployee ==
    \E i \in CreateInputs :
        LET r == create_employee(db, i[1], i[2])
        IN  /\ WithinBound(r)
            /\ db' = r.db
            /\ owner' = IF r.resp.status = 201 THEN Owned(db, i[1]) ELSE owner
            /\ UNCHANGED <<issued, registered, inflight>>

GetEmployees ==
    \E token \in ListInputs :
        LET r == get_employees(db, token)
        IN  /\ db' = r.db
            /\ UNCHANGED <<issued, registered, owner, inflight>>

UpdateEmployee ==
    \E i \in UpdateInputs :
        LET r == update_employee(db, i[1], i[2], i[3])
        IN  /\ db' = r.db
            /\ UNCHANGED <<issued, registered, owner, inflight>>

DeleteEmployee ==
    \E i \in DeleteInputs :
        LET r == delete_employee(db, i[1], i[2])
        IN  /\ db' = r.db
            /\ owner' = Kept(r.db)
            /\ UNCHANGED <<issued, registered, inflight>>

(***************************************************************************)
(* Spec: the employee routes, used by two accounts; every request is       *)
(* served in one step.                                                     *)
(***************************************************************************)
Register == RegisterFrom(Accounts, {"s1"})

Login == LoginFrom(AccountLogins)

Next ==
    \/ Register
    \/ Login
    \/ CreateEmployee
    \/ GetEmployees
    \/ UpdateEmployee
    \/ DeleteEmployee

Spec == Init /\ [][Next]_vars

(***************************************************************************)
(* SpecAuth: the two routes of auth.py on all the registration and login   *)
(* requests; every request is served in one step.                          *)
(***************************************************************************)
RegisterAny == RegisterFrom(RegisterInputs, Salts)

LoginAny == LoginFrom(LoginInputs)

NextAuth ==
    \/ RegisterAny
    \/ LoginAny

SpecAuth == Init /\ [][NextAuth]_vars

(***************************************************************************)
(* SpecRace: create_employee served by two workers at once.  Its           *)
(* duplicate check (find_one) and its insert (insert_one) are two calls    *)
(* on the store, and another worker's call may come between them.          *)
(***************************************************************************)
Pending == {w \in Workers : inflight[w].stage = "checked"}

\* A worker takes a request and runs it up to the duplicate check.
create_begin(w, token, body) ==
    LET c == create_check(db, token, body)
    IN  /\ inflight[w].stage # "checked"
        /\ db.nextOid + Cardinality(Pending) < FirstOid + MaxDocs
        /\ inflight' = [inflight EXCEPT ![w] =
               IF c.pass
               THEN [stage |-> "checked", doc |-> c.doc, acct |-> token.acct,
                     status |-> 0, peers |-> {}]
               ELSE [stage |-> "done", doc |-> NoDoc, acct |-> token.acct,
                     status |-> c.resp.status, peers |-> {}]]
        /\ UNCHANGED <<db, issued, registered, owner>>

\* The worker inserts and answers.  peers: the workers then between their
\* own check and insert.
create_finish(w) ==
    LET r == create_insert(db, inflight[w].doc)
    IN  /\ inflight[w].stage = "checked"
        /\ db' = r.db
        /\ owner' = IF r.resp.status = 201
                    THEN (db.nextOid :> inflight[w].acct) @@ owner
                    ELSE owner
        /\ inflight' = [inflight EXCEPT ![w] =
               [@ EXCEPT !.stage = "done", !.status = r.resp.status,
                         !.peers = Pending \ {w}]]
        /\ UNCHANGED <<issued, registered>>

CreateBegin == \E w \in Workers, token \in issued, body \in ValidBodies : create_begin(w, token, body)

CreateFinish == \E w \in Workers : create_finish(w)

NextRace ==
    \/ Register
    \/ Login
    \/ CreateBegin
    \/ CreateFinish

SpecRace == Init /\ [][NextRace]_vars

(***************************************************************************)
(* Claims.  A claim about the response to a request is stated of every     *)
(* request of the sample sets, in every reachable state of the store.      *)
(***************************************************************************)
Employees == {db.employees[i] : i \in 1..Len(db.employees)}

Users == {db.users[i] : i \in 1..Len(db.users)}

\* The employees created with a token of the account acct.
EmployeesOf(acct) == {e \in Employees : owner[e._id] = acct}

EmailExists == Error(400, "Email already exists")

NotAuthorized == Error(403, "Not authorized")

\* C1: no two employee documents share (email, createdBy); and a create is
\* rejected as a duplicate only when the creating account itself already
\* has an employee with that e-mail, so an e-mail used by another account's
\* employee does not make it a duplicate.
C1_UniqueEmailPerOwner ==
    /\ \A i, j \in 1..Len(db.employees) :
           i # j => ~(/\ db.employees[i].email = db.employees[j].email
                      /\ db.employees[i].createdBy = db.employees[j].createdBy)
    /\ \A token \in issued, body \in Bodies :
           create_employee(db, token, body).resp = EmailExists
               => \E e \in EmployeesOf(token.acct) : e.email = strip(body.email)

\* Two accounts each have an employee with the same e-mail.
C1_Witness ==
    \E e1, e2 \in Employees :
        /\ e1.email = e2.email
        /\ e1.createdBy # e2.createdBy
        /\ owner[e1._id] # owner[e2._id]

\* C2: list, called with a token of account B, returns exactly the
\* employees B created, each once, as stored but for the identifier in its
\* string form: none of another account's, and none of B's own missing.
C2_ListIsOwnEmployees ==
    \A token \in issued :
        LET r    == get_employees(db, token)
            rows == r.resp.data
        IN  /\ r.resp.status = 200
            /\ r.db = db
            /\ Len(rows) = Cardinality(EmployeesOf(token.acct))
            /\ {rows[i] : i \in 1..Len(rows)}
                   = {Serialized(e) : e \in EmployeesOf(token.acct)}

\* An account lists its own employee while another account has one too.
C2_Witness ==
    \E token \in issued :
        /\ Len(get_employees(db, token).resp.data) >= 1
        /\ \E e \in Employees : owner[e._id] # token.acct


\* (token, id) with id naming, in either case of its digits, an employee
\* created by another account than the token's.
OthersEmployee(token, id) ==
    \E e \in Employees :
        /\ ObjectId(id).ok
        /\ ObjectId(id).hex = ObjectIdStr(e._id)
        /\ owner[e._id] # token.acct

\* The account of token has an employee with this e-mail.
UsesEmail(token, email) == \E e \in EmployeesOf(token.acct) : e.email = email

\* C3, as claimed: an update or delete by B on the identifier of A's
\* employee answers 403 "Not authorized" for every request body and leaves
\* the store as it was.
C3_AlwaysForbidden ==
    \A token \in issued, id \in StoredIds :
        OthersEmployee(token, id) =>
            /\ delete_employee(db, token, id) = Result(NotAuthorized, db)
            /\ \A body \in Bodies :
                   update_employee(db, token, id, body) = Result(NotAuthorized, db)

\* C3, amended: a delete by B on the identifier of A's employee answers
\* 403 "Not authorized"; an update answers 403 "Not authorized" when the
\* body passes validation and its e-mail is on none of B's own employees,
\* and 400 otherwise (validation and the duplicate check come before the
\* owner match); in every case the store, A's document in it, is unchanged.
C3_ForbiddenAfterValidation ==
    \A token \in issued, id \in StoredIds :
        OthersEmployee(token, id) =>
            /\ delete_employee(db, token, id) = Result(NotAuthorized, db)
            /\ \A body \in Bodies :
                   LET r == update_employee(db, token, id, body)
                   IN  /\ r.db = db
                       /\ IF body \in ValidBodies /\ ~UsesEmail(token, strip(body.email))
                          THEN r.resp = NotAuthorized
                          ELSE r.resp.status = 400

\* B, holding a token, meets an employee of A: an update with a valid body
\* answers 403 and one with an invalid body answers 400.
C3_Witness ==
    \E token \in issued, id \in StoredIds :
        /\ OthersEmployee(token, id)
        /\ update_employee(db, token, id, Body_kim).resp = NotAuthorized
        /\ update_employee(db, token, id, Body_badname).resp = Error(400, "Invalid Name")
        /\ delete_employee(db, token, id).resp = NotAuthorized

\* The users with this e-mail.
UsersWith(email) == {i \in Docs(db.users) : db.users[i].email = email}

\* Registration requests whose e-mail a user already has.
RepeatedRegistrations == {i \in RegisterInputs : UsersWith(i[2]) # {}}

\* C4, as claimed: a registration with the e-mail of an existing user
\* answers 400 "Email already exists" whatever its name and password, and
\* the collection keeps exactly one user with that e-mail.
C4_AlwaysConflict ==
    \A i \in RepeatedRegistrations, salt \in Salts :
        /\ register(db, i[1], i[2], i[3], salt) = Result(EmailExists, db)
        /\ Cardinality(UsersWith(i[2])) = 1

\* C4, amended: a registration with the e-mail of an existing user is
\* always refused and changes nothing, the collection keeping exactly one
\* user with that e-mail; the answer is 400 "Email already exists" when
\* name is not empty and password is a string of 6 characters or more,
\* and otherwise the answer of the check that comes first ("All fields
\* required", "Password must be 6+ chars", or 500 for a password that is
\* no string).
C4_ConflictAfterValidation ==
    \A i \in RepeatedRegistrations, salt \in Salts :
        LET r == register(db, i[1], i[2], i[3], salt)
        IN  /\ r.db = db
            /\ Cardinality(UsersWith(i[2])) = 1
            /\ IF i[1] # <<>> /\ i[3].t = "str" /\ Len(i[3].s) >= 6
               THEN r.resp = EmailExists
               ELSE IF i[1] = <<>> \/ i[3] = JStr(<<>>)
               THEN r.resp = Error(400, "All fields required")
               ELSE IF i[3].t = "str"
               THEN r.resp = Error(400, "Password must be 6+ chars")
               ELSE r.resp = ServerError

\* Ann Lee is registered; a second registration of her e-mail under another
\* name and password is a conflict, and one with a short password is not.
C4_Witness ==
    /\ \E g \in registered : g.email = Email_annlee /\ g.name = Name_AnnLee
    /\ register(db, Name_Bob, Email_annlee, JStr(Pw_hunter22), "s1").resp = EmailExists
    /\ register(db, Name_Bob, Email_annlee, JStr(Pw_abc), "s1").resp
           = Error(400, "Password must be 6+ chars")

\* C5: after a successful registration, in every later state, a login with
\* its e-mail and password answers 200 with the name stored for the one
\* user with that e-mail and a token whose subject is the string form of
\* that user's identifier.
C5_LoginAfterRegister ==
    \A g \in registered :
        LET r == login(db, g.email, g.password)
        IN  /\ r.resp.status = 200
            /\ r.db = db
            /\ Cardinality(UsersWith(g.email)) = 1
            /\ \A k \in UsersWith(g.email) :
                   /\ r.resp.data.token.kind = "valid"
                   /\ r.resp.data.token.sub = ObjectIdStr(db.users[k]._id)
                   /\ r.resp.data.name = db.users[k].name
                   /\ r.resp.data.name = g.name

\* Two accounts are registered and the one registered second has logged in.
C5_Witness ==
    /\ Cardinality(registered) >= 2
    /\ \E token \in issued : token.sub = ObjectIdStr(db.users[2]._id)


\* Ten times the number a JSON salary denotes.
JsonTenths(j) ==
    IF j.t = "int" THEN 10 * j.v
    ELSE IF j.t = "float" THEN j.tenths
    ELSE 10 * int_of_str(j.s).v

\* The listed employee row shows the request body: the text fields
\* trimmed, the salary the number sent.
ShowsInput(row, body) ==
    /\ row.name = strip(body.name)
    /\ row.email = strip(body.email)
    /\ row.department = strip(body.department)
    /\ row.designation = strip(body.designation)
    /\ 10 * row.salary = JsonTenths(body.salary)

\* The rows list returns to the holder of token.
Listed(store, token) ==
    LET rows == get_employees(store, token).resp.data
    IN  {rows[i] : i \in 1..Len(rows)}

\* C6, as claimed: after a successful create, the owner's list has an
\* employee whose fields equal the trimmed input; after a successful update
\* of that identifier, the list shows the new values under the same
\* identifier; after a successful delete, the list has no such identifier.
C6_RoundTrip ==
    \A token \in issued, body \in Bodies :
        LET c  == create_employee(db, token, body)
            id == ObjectIdStr(db.nextOid)
        IN  c.resp.status = 201 =>
                /\ \E row \in Listed(c.db, token) : row._id = id /\ ShowsInput(row, body)
                /\ \A body2 \in Bodies :
                       LET u == update_employee(c.db, token, id, body2)
                           d == delete_employee(u.db, token, id)
                       IN  u.resp.status = 200 =>
                               /\ \E row \in Listed(u.db, token) :
                                      row._id = id /\ ShowsInput(row, body2)
                               /\ d.resp.status = 200
                               /\ \A row \in Listed(d.db, token) : row._id # id

\* What the handlers see of a header that is no valid token.
Rejections(token) ==
    {create_employee(db, token, body) : body \in Bodies}
        \cup {get_employees(db, token)}
        \cup {update_employee(db, token, id, body) : id \in Ids, body \in Bodies}
        \cup {delete_employee(db, token, id) : id \in Ids}

C8_AnnRegisters ==
    db.users = <<>> =>
        \A salt, salt2 \in Salts :
            LET r == register(db, AnnRequest[1], AnnRequest[2], AnnRequest[3], salt)
            IN  /\ r.resp.status = 201
                /\ Len(r.db.users) = 1
                /\ register(r.db, AnnRequest[1], AnnRequest[2], AnnRequest[3], salt2).resp
                       = EmailExists

\* C8, amended: registering Ann Lee with ann@gmail.com answers 400
\* "Invalid email format" and stores nothing, the first time and every
\* time (the local part "ann" has 3 characters, the pattern asks for 6 to
\* 30).  With a local part of 6 characters, annlee@gmail.com, the request
\* on an empty users collection answers 201 and stores the user, password
\* hashed, and the same request again answers 400 "Email already exists"
\* and stores nothing.
C8_AnnRejectedAnnLeeRegisters ==
    \A salt, salt2 \in Salts :
        /\ register(db, AnnRequest[1], AnnRequest[2], AnnRequest[3], salt)
               = Result(Error(400, "Invalid email format"), db)
        /\ LET r == register(db, AnnLeeRequest[1], AnnLeeRequest[2], AnnLeeRequest[3], salt)
           IN  /\ db.users = <<>> =>
                      /\ r.resp = Message(201, "Registered Successfully")
                      /\ r.db.users = <<[_id |-> db.nextOid, name |-> Name_AnnLee,
                                         email |-> Email_annlee,
                                         password |-> hashpw(Pw_secret1, salt)]>>
                      /\ register(r.db, AnnLeeRequest[1], AnnLeeRequest[2],
                                  AnnLeeRequest[3], salt2) = Result(EmailExists, r.db)
               /\ UsersWith(Email_annlee) # {} => r = Result(EmailExists, db)

\* Ann Lee has just registered into the empty collection: the same request
\* again is a conflict.
C8_Witness ==
    /\ Len(db.users) = 1
    /\ db.users[1].name = Name_AnnLee
    /\ db.users[1].email = Email_annlee
    /\ register(db, AnnLeeRequest[1], AnnLeeRequest[2], AnnLeeRequest[3], "s1").resp
           = EmailExists

\* Logins whose e-mail and password are non-empty strings.
StringLogins == {i \in LoginInputs : i[1] # <<>> /\ i[2].t = "str" /\ i[2].s # <<>>}

\* No user has the e-mail of this login.
NoSuchUser(i) == UsersWith(i[1]) = {}

\* A user has the e-mail of this login, registered with another password.
WrongPassword(i) ==
    /\ UsersWith(i[1]) # {}
    /\ ~\E g \in registered : g.email = i[1] /\ g.password = i[2]

Raced(w, v) ==
    /\ w # v
    /\ inflight[w].stage = "done"
    /\ inflight[v].stage = "done"
    /\ v \in inflight[w].peers
    /\ inflight[w].doc.email = inflight[v].doc.email
    /\ inflight[w].doc.createdBy = inflight[v].doc.createdBy
    /\ inflight[w].doc # NoDoc

\* C10: when two creates of the same account with the same valid e-mail
\* both run their duplicate check before either inserts, both answer 201
\* and the store holds two employees with the same (email, createdBy).
C10_CheckThenInsertRace ==
    \A w, v \in Workers :
        Raced(w, v) =>
            /\ inflight[w].status = 201
            /\ inflight[v].status = 201
            /\ Cardinality({i \in Docs(db.employees) :
                   /\ db.employees[i].email = inflight[w].doc.email
                   /\ db.employees[i].createdBy = inflight[w].doc.createdBy}) >= 2

\* The race has happened: both answered 201 and two documents share the
\* pair.
C10_Witness ==
    \E w, v \in Workers :
        /\ Raced(w, v)
        /\ inflight[w].status = 201
        /\ inflight[v].status = 201
        /\ \E i, j \in Docs(db.employees) :
               /\ i # j
               /\ db.employees[i].email = db.employees[j].email
               /\ db.employees[i].createdBy = db.employees[j].createdBy

\* Every combination of a passing and a failing value for each of the five
\* fields, the e-mail being one an employee of the sample bodies has.
FieldCombinations ==
    {Body(n, e, d, r, sal) :
        n \in {Name_KimSmith, Name_Eve2},
        e \in {Email_ejones, Email_dotdot},
        d \in {Dept_Sales, Dept_R},
        r \in {Role_Manager, <<>>},
        sal \in {JInt(5), JStr(Str_abc)}}

\* The five fields in the order name, email, department, designation,
\* salary: whether the trimmed value passes its validator, and the message
\* of the field.
FieldChecks(body) ==
    << <<validate_name(strip(body.name)), "Invalid Name">>,
       <<validate_email_format(strip(body.email)), "Invalid Email">>,
       <<validate_text_field(strip(body.department)), "Invalid Department">>,
       <<validate_text_field(strip(body.designation)), "Invalid Role">>,
       <<validate_salary(body.salary), "Invalid Salary">> >>

\* The positions of the fields of body that fail.
FailingFields(body) == {k \in 1..5 : ~FieldChecks(body)[k][1]}

\* The message of the first field of body that fails.
FirstFailure(body) == FieldChecks(body)[SetMin(FailingFields(body))][2]

\* C11: a create or an update whose body has a failing field answers 400
\* with the message of the first failing field in the order name, email,
\* department, designation, salary, whatever the identifier and whatever
\* the store holds, and leaves the store unchanged.
C11_FirstFailingField ==
    \A token \in issued, body \in Bodies \cup FieldCombinations :
        FailingFields(body) # {} =>
            /\ create_employee(db, token, body) = Result(Error(400, FirstFailure(body)), db)
            /\ \A id \in Ids :
                   update_employee(db, token, id, body)
                       = Result(Error(400, FirstFailure(body)), db)

\* An account that has an employee with an e-mail sends it again with a
\* failing name, and a body failing in every field but the name to an
\* identifier that is no ObjectId: the answers are the field's, not the
\* duplicate's, and the later failures are not the ones named.
C11_Witness ==
    \E token \in issued :
        /\ UsesEmail(token, Email_ejones)
        /\ create_employee(db, token, Body_badname).resp = Error(400, "Invalid Name")
        /\ create_employee(db, token, Body_kim_ejones).resp = EmailExists
        /\ update_employee(db, token, Id_xyz,
               Body(Name_KimSmith, Email_dotdot, Dept_R, <<>>, JStr(Str_abc))).resp
               = Error(400, "Invalid Email")
        /\ \E body \in FieldCombinations :
               /\ FailingFields(body) = {3, 5}
               /\ create_employee(db, token, body).resp = Error(400, "Invalid Department")

\* The identifiers of the users, in string form.
UserIds == {ObjectIdStr(u._id) : u \in Users}

\* The sample bodies, and the same with an owner and an identifier of the
\* sender's choice added.
ForgedBodies ==
    Bodies \cup {("createdBy" :> uid) @@ ("_id" :> ObjectIdStr(0)) @@ b :
                    uid \in UserIds, b \in ValidBodies}

\* The fields of a stored employee.
EmployeeFields ==
    {"_id", "name", "email", "department", "designation", "salary", "createdBy"}

\* A successful create appends one document, owned by the token identity,
\* and touches nothing else.
CreateFrame(token, body) ==
    LET c == create_employee(db, token, body)
        n == Len(db.employees)
    IN  c.resp.status = 201 =>
            /\ Len(c.db.employees) = n + 1
            /\ SubSeq(c.db.employees, 1, n) = db.employees
            /\ DOMAIN c.db.employees[n + 1] = EmployeeFields
            /\ c.db.employees[n + 1].createdBy = token.sub
            /\ c.db.employees[n + 1]._id = db.nextOid
            /\ c.db.employees[n + 1].name = strip(body.name)
            /\ c.db.users = db.users

\* A successful update changes the five fields of the one document with
\* the identifier, and touches nothing else.
UpdateFrame(token, id, body) ==
    LET u == update_employee(db, token, id, body)
    IN  u.resp.status = 200 =>
            /\ u.db.users = db.users
            /\ Len(u.db.employees) = Len(db.employees)
            /\ \E k \in Docs(db.employees) :
                   /\ ObjectIdStr(db.employees[k]._id) = ObjectId(id).hex
                   /\ db.employees[k].createdBy = token.sub
                   /\ u.db.employees[k].name = strip(body.name)
                   /\ u.db.employees[k].email = strip(body.email)
                   /\ \A j \in Docs(db.employees) :
                          \A f \in IF j = k THEN {"_id", "createdBy"} ELSE EmployeeFields :
                              u.db.employees[j][f] = db.employees[j][f]
                   /\ \A j \in Docs(db.employees) :
                          DOMAIN u.db.employees[j] = EmployeeFields

\* A successful delete removes the one document with the identifier, and
\* touches nothing else.
DeleteFrame(token, id) ==
    LET d == delete_employee(db, token, id)
        n == Len(db.employees)
    IN  d.resp.status = 200 =>
            /\ d.db.users = db.users
            /\ \E k \in Docs(db.employees) :
                   /\ ObjectIdStr(db.employees[k]._id) = ObjectId(id).hex
                   /\ db.employees[k].createdBy = token.sub
                   /\ d.db.employees
                          = SubSeq(db.employees, 1, k - 1) \o SubSeq(db.employees, k + 1, n)

\* C12: every stored employee is owned by the identity of the token that
\* created it, whatever the bodies sent since; a successful create appends
\* one document owned by the token identity, never by an owner named in the
\* body; a successful update changes only name, email, department,
\* designation and salary of the targeted document, leaving its identifier
\* and createdBy, every other employee and the users unchanged; a
\* successful delete removes only the targeted document.
C12_OwnerFixedAndFrames ==
    /\ \A e \in Employees :
           \E u \in Users : u.email = owner[e._id] /\ e.createdBy = ObjectIdStr(u._id)
    /\ \A token \in issued :
           /\ \A body \in ForgedBodies : CreateFrame(token, body)
           /\ \A id \in Ids, body \in ForgedBodies : UpdateFrame(token, id, body)
           /\ \A id \in Ids : DeleteFrame(token, id)

\* An account with an employee, beside an employee of another account,
\* creates, and updates its employee, with a body naming the other account
\* as owner, and deletes its employee.
C12_Witness ==
    \E token \in issued, uid \in UserIds, k, o \in Docs(db.employees) :
        LET forged == ("createdBy" :> uid) @@ ("_id" :> ObjectIdStr(0)) @@ Body_kim
            id     == ObjectIdStr(db.employees[k]._id)
        IN  /\ uid # token.sub
            /\ db.employees[k].createdBy = token.sub
            /\ db.employees[o].createdBy = uid
            /\ create_employee(db, token, forged).resp.status = 201
            /\ update_employee(db, token, id, forged).resp.status = 200
            /\ delete_employee(db, token, id).resp.status = 200

====
